---- MODULE Spec2Model ----
(***************************************************************************)
(* Model of the video feed screen VideoScroll (src/unnamed/part_003,       *)
(* lines 666-1960): the playback hooks useVideoState / VideoPlayer, the    *)
(* like and bookmark handlers, loadVideos / checkUserInteractions, and the *)
(* backend tables video_likes / video_bookmarks with their count triggers. *)
(*                                                                         *)
(* React state variables are modelled by TLA+ variables of the same name.  *)
(* An event handler, the re-render it causes and the effects that re-run   *)
(* after that render form one action.  Every `await` on the network is a   *)
(* suspension point and splits an async function into several actions.     *)
(***************************************************************************)
EXTENDS Integers, Sequences, FiniteSets, TLC

(***************************************************************************)
(* Bounds of the model.                                                    *)
(***************************************************************************)
\* number of rows of the videos table
MaxVideos == 3
\* number of rows of the videos table in the runs that never scroll across a
\* whole page
MaxShortFeed == 2
\* texts typed into the edit form in one run
MaxEdits == 2
\* saveVideoChanges calls in one run
MaxSaves == 1
\* likes / bookmarks that users other than the current one gave a video
MaxOtherCount == 1
\* like / bookmark taps handled in one run
MaxTaps == 2
\* length of the `changed` list of one viewability event
MaxChanged == 2

(***************************************************************************)
(* Values.                                                                 *)
(***************************************************************************)
AllVideoIds == <<"A", "B", "C", "D">>
VideoIds == {AllVideoIds[i] : i \in 1..MaxVideos}
NoUser == "none"
Me == "u1"
NoError == "null"
LoadFailed == "Failed to load videos"
Kinds == {"like", "bookmark"}
Platforms == {"web", "native"}
\* another user
Other == "u2"
\* null / undefined
Null == "null"
\* the values JavaScript's `||` and `!` treat as false, among those of the model
Falsy == {Null, "", "0"}
\* texts typed into the title and description inputs
Texts == {"", "x"}
\* texts typed into the address input
Addresses == {"", " ", "a"}
\* the columns an edit can change
EditableFields == {"title", "description", "address", "latitude", "longitude"}
\* stored columns of a video: without and with optional columns (latitude 0
\* is the equator)
StoredFieldSets ==
    {[title |-> "t", description |-> Null, address |-> Null, latitude |-> Null, longitude |-> Null],
     [title |-> "t", description |-> "d", address |-> "b", latitude |-> "0", longitude |-> "9"]}
\* videos.user_id: the second video belongs to another user
OwnerOf(v) == IF v = AllVideoIds[2] THEN Other ELSE Me
\* useState<EditVideoData | null>(null): no draft
NoDraft ==
    [id |-> Null, title |-> Null, description |-> Null, address |-> Null,
     latitude |-> Null, longitude |-> Null]
\* saveVideoChanges has not been called
NoSave == [stage |-> "none", sent |-> NoDraft]
\* what Location.getCurrentPositionAsync, reverseGeocodeAsync and geocodeAsync
\* resolve to in the model
DeviceLatitude == "5"
DeviceLongitude == "6"
FormattedAddress == "street name, city, region zip, country"
UnknownLocation == "Unknown location"
GeocodedLatitude == "7"
GeocodedLongitude == "8"
\* messages of setLocationError
PermissionDenied == "Permission to access location was denied"
CurrentLocationFailed == "Failed to get current location"
EnterAddress == "Please enter an address"
AddressNotFound == "Address not found"
GeocodeFailed == "Failed to find location"
UpdateFailed == "Failed to update video"
\* setupAudio: playsInSilentModeIOS true, shouldDuckAndroid true
FeedAudioMode == "feed"
\* mount effect cleanup: playsInSilentModeIOS false, staysActiveInBackground false
ResetAudioMode == "reset"

VARIABLES
    platform,        \* Platform.OS of the build
    authUser,        \* what supabase.auth.getUser() resolves to
    dbVideos,        \* rows of table videos, in created_at descending order
    dbRows,          \* dbRows[k]: video ids with a video_likes / video_bookmarks row of the current user
    dbCount,         \* dbCount[k][v]: column like_count / bookmark_count of video v
    videos,          \* VideoScroll state `videos`
    loading,         \* VideoScroll state `loading`
    error,           \* VideoScroll state `error`
    interactions,    \* useInteractionState().interactions
    loadPc,          \* position of the running loadVideos call, and the interaction
                     \* queries it has issued so far
    ops,             \* handleLike / handleBookmark calls: suspended at their backend await, or returned
    taps,            \* number of taps handled so far
    currentIndex,    \* VideoScroll's useVideoState().currentIndex
    isMuted,         \* VideoScroll's useVideoState().isMuted
    videoRefs,       \* keys of VideoScroll's useVideoState().videoRefs.current
    mounted,         \* video ids whose MemoizedVideoPlayer is mounted
    playerRefs,      \* playerRefs[v]: keys of the videoRefs.current of player v's own useVideoState()
    playerIsMuted,   \* playerIsMuted[v]: isMuted of player v's own useVideoState()
    playing,         \* video ids whose player element is in the playing transport state
    lastCommands,    \* lastCommands[v]: command the last playback effect pass issued to v's handle
    lastChanged,     \* the last viewability event: its first token, its length and the
                     \* index before it (observation only)
    screenMounted,   \* VideoScroll is mounted (its mount effect cleanup has not run)
    appState,        \* "active" or "background": whether the app is in the foreground
    audioMode,       \* the mode of the last Audio.setAudioModeAsync call
    restPage,        \* FlatList: the page the list last came to rest on
    flingTo,         \* FlatList: the page the scroll under way ends on (restPage when at rest)
    visiblePage,     \* FlatList: the page that occupies at least 50% of the viewport
    currentUserId,   \* VideoScroll state `currentUserId`
    dbFields,        \* dbFields[v]: columns title, description, address, latitude, longitude of video v
    bottomSheetVisible, \* useInteractionState().bottomSheetVisible
    editModalVisible,   \* useInteractionState().editModalVisible
    editVideoData,   \* useInteractionState().editVideoData: the draft, or NoDraft
    locationLoading, \* useInteractionState().locationLoading
    locationError,   \* useInteractionState().locationError
    saving,          \* useInteractionState().saving
    locOps,          \* getCurrentLocation / searchAddress calls suspended at an await
    saveOp,          \* the last saveVideoChanges call: suspended at its update with the
                     \* draft it sent, or how it ended
    edits,           \* number of texts typed into the edit form so far
    saves            \* number of saveVideoChanges calls so far

dbVars == <<dbVideos, dbRows, dbCount>>
loadVars == <<loading, error, loadPc>>
tapVars == <<ops, taps>>
playVars == <<currentIndex, isMuted, videoRefs, mounted, playerRefs, playerIsMuted, playing,
              lastCommands, lastChanged>>
lifeVars == <<screenMounted, appState, audioMode>>
scrollVars == <<restPage, flingTo, visiblePage>>
editVars == <<currentUserId, dbFields, bottomSheetVisible, editModalVisible, editVideoData,
              locationLoading, locationError, saving, locOps, saveOp, edits, saves>>
vars == <<platform, authUser, dbVideos, dbRows, dbCount, videos, loading, error,
          interactions, loadPc, ops, taps, currentIndex, isMuted, videoRefs, mounted,
          playerRefs, playerIsMuted, playing, lastCommands, lastChanged,
          screenMounted, appState, audioMode, restPage, flingTo, visiblePage,
          currentUserId, dbFields, bottomSheetVisible, editModalVisible, editVideoData,
          locationLoading, locationError, saving, locOps, saveOp, edits, saves>>

(***************************************************************************)
(* Helpers over the feed.                                                  *)
(***************************************************************************)
Range(s) == {s[i] : i \in 1..Len(s)}

FeedIds == {videos[i].id : i \in 1..Len(videos)}

\* videos.indexOf(item), 0-based; -1 when absent
IndexOf(vs, v) ==
    IF \E i \in 1..Len(vs) : vs[i].id = v
    THEN (CHOOSE i \in 1..Len(vs) : vs[i].id = v) - 1
    ELSE -1

\* the feed entry of video v
Entry(v) == videos[IndexOf(videos, v) + 1]

\* the count column a toggle kind adjusts
CountOf(entry, k) == IF k = "like" THEN entry.like_count ELSE entry.bookmark_count

\* interactions[videoId]?.isLiked / ?.isBookmarked, read for truthiness
FlagOf(inter, v, k) == IF k = "like" THEN inter[v].isLiked ELSE inter[v].isBookmarked

NoInteractions == [v \in VideoIds |-> [isLiked |-> FALSE, isBookmarked |-> FALSE]]

\* the feed screen is rendered (neither the loading nor the error view)
FeedShown == screenMounted /\ ~loading /\ error = NoError

\* variant: the setter of an unmounted component still stores the value
SetStateApplies_AfterUnmount(isMounted) == TRUE

\* a useState setter stores the value only while its component is mounted:
\* React drops the update of an unmounted component
SetStateApplies(isMounted) == isMounted

\* the value of a state variable after its setter was called with `new`
SetState(cur, new) == IF SetStateApplies(screenMounted) THEN new ELSE cur

(***************************************************************************)
(* Backend: tables video_likes / video_bookmarks and their triggers.       *)
(***************************************************************************)
\* INSERT violates UNIQUE(video_id, user_id) when the row exists
InsertAccepted(rows, v) == v \notin rows

\* rows of the current user after the statement of a toggle that read `was`
RowsAfter(rows, v, was) ==
    IF was THEN rows \ {v}
    ELSE IF InsertAccepted(rows, v) THEN rows \cup {v} ELSE rows

\* update_video_like_count / update_video_bookmark_count: fires once FOR EACH ROW
\* inserted or deleted
CountAfterTrigger(count, rows, v, was) ==
    IF was THEN (IF v \in rows THEN count - 1 ELSE count)
    ELSE IF InsertAccepted(rows, v) THEN count + 1 ELSE count

\* the { error } a statement returns: DELETE of no row is not an error
StatementOk(rows, v, was) == was \/ InsertAccepted(rows, v)

(***************************************************************************)
(* Playback: the players' props and the playback effect of VideoScroll.    *)
(***************************************************************************)
\* renderItem: isCurrentVideo={videoState.currentIndex === videos.indexOf(item)}
IsCurrentVideo(vs, cur, v) == IndexOf(vs, v) = cur

\* where the ref callback of a mounting VideoPlayer stores its element: in the
\* videoRefs of the useVideoState() instance the player itself creates
PlayerRefsOnMount(own, v) == own \cup {v}

\* VideoScroll's videoRefs.current after player v mounted: the player does not
\* write to it
ScrollRefsOnMount(refs, v) == refs

\* isMuted prop of the element of a mounting player: the isMuted of the
\* player's own useVideoState(), useState(false)
PlayerMutedOnMount(scrollMuted) == FALSE

\* isMuted of a mounted player's own hook after the mute button was pressed:
\* the button calls the setter of VideoScroll's hook only
PlayerMutedOnToggle(playerMuted, scrollMuted) == playerMuted

\* transport state after the players re-rendered with changed isCurrentVideo
\* props.  native: shouldPlay starts and pauses.  web: the autoplay attribute
\* never pauses an element, and starts one only if the element has not reached
\* HAVE_ENOUGH_DATA yet (the elements in `starts`).
PlayingAfterProps(plat, ply, mnt, wasCur, isCur, starts) ==
    LET turnedOn == {v \in mnt : v \notin wasCur /\ v \in isCur}
        turnedOff == {v \in mnt : v \in wasCur /\ v \notin isCur}
    IN IF plat = "native"
       THEN (ply \ turnedOff) \cup turnedOn
       ELSE ply \cup (turnedOn \cap starts)

\* commands of one pass of the playback effect over VideoScroll's videoRefs
EffectCommands(vs, cur, refs) ==
    [v \in VideoIds |->
        IF Len(vs) > 0 /\ IndexOf(vs, v) >= 0 /\ v \in refs
        THEN (IF IndexOf(vs, v) = cur THEN "start" ELSE "stop")
        ELSE "none"]

\* transport state after the commands were applied to the live elements
PlayingAfterCommands(ply, mnt, cmds) ==
    (ply \ {v \in VideoIds : cmds[v] = "stop"})
        \cup {v \in mnt : cmds[v] = "start"}

CurrentSet(vs, cur) == {v \in VideoIds : IsCurrentVideo(vs, cur, v)}

\* re-render of VideoScroll after `videos` or `currentIndex` changed, followed
\* by the playback effect (deps [currentIndex, videos])
Rerender(vs, cur, starts) ==
    LET cmds == EffectCommands(vs, cur, videoRefs)
        afterProps == PlayingAfterProps(platform, playing, mounted,
                          CurrentSet(videos, currentIndex), CurrentSet(vs, cur), starts)
    IN /\ playing' = PlayingAfterCommands(afterProps, mounted, cmds)
       /\ lastCommands' = cmds

\* the elements whose autoplay attribute can still take effect when index cur
\* becomes current
StartChoices(vs, cur) ==
    IF platform = "web"
    THEN SUBSET {v \in mounted : IsCurrentVideo(vs, cur, v)
                                    /\ ~IsCurrentVideo(videos, currentIndex, v)}
    ELSE {{}}

\* loadVideos has been called and is suspended at supabase.auth.getUser()
LoadStart ==
    [at |-> "getUser", likedVideos |-> {}, fetched |-> FALSE,
     likedQueries |-> 0, bookmarkedQueries |-> 0, queriedIds |-> {}]

(***************************************************************************)
(* Initial state: VideoScroll has mounted, its mount effect has called     *)
(* loadVideos, which is suspended at supabase.auth.getUser().              *)
(***************************************************************************)
Init ==
    /\ platform \in Platforms
    /\ authUser \in {Me, NoUser}
    /\ dbVideos \in {SubSeq(AllVideoIds, 1, n) : n \in 0..MaxVideos}
    /\ dbRows \in [Kinds -> SUBSET Range(dbVideos)]
    /\ \E other \in 0..MaxOtherCount :
          dbCount = [k \in Kinds |-> [v \in VideoIds |->
                        other + (IF v \in dbRows[k] THEN 1 ELSE 0)]]
    /\ videos = <<>>
    /\ loading = TRUE
    /\ error = NoError
    /\ interactions = NoInteractions
    /\ loadPc = LoadStart
    /\ ops = {}
    /\ taps = 0
    /\ currentIndex = 0
    /\ isMuted = FALSE
    /\ videoRefs = {}
    /\ mounted = {}
    /\ playerRefs = [v \in VideoIds |-> {}]
    /\ playerIsMuted = [v \in VideoIds |-> FALSE]
    /\ playing = {}
    /\ lastCommands = [v \in VideoIds |-> "none"]
    /\ lastChanged = [first |-> [index |-> 0, isViewable |-> FALSE], length |-> 0, before |-> 0]
    /\ screenMounted = TRUE
    /\ appState = "active"
    /\ audioMode = FeedAudioMode
    /\ restPage = 0
    /\ flingTo = 0
    /\ visiblePage = 0
    /\ currentUserId = NoUser
    /\ \E stored \in StoredFieldSets : dbFields = [v \in VideoIds |-> stored]
    /\ bottomSheetVisible = FALSE
    /\ editModalVisible = FALSE
    /\ editVideoData = NoDraft
    /\ locationLoading = FALSE
    /\ locationError = Null
    /\ saving = FALSE
    /\ locOps = {}
    /\ saveOp = NoSave
    /\ edits = 0
    /\ saves = 0

(***************************************************************************)
(* loadVideos and checkUserInteractions.                                   *)
(***************************************************************************)
\* loadVideos has returned; fetched: checkUserInteractions stored its result
LoadDone(fetched) ==
    [at |-> "done", likedVideos |-> {}, fetched |-> fetched,
     likedQueries |-> 0, bookmarkedQueries |-> 0, queriedIds |-> {}]

\* variant: one select per video id
InteractionQueries_PerVideo(videoIds) == Cardinality(videoIds)

\* the number of select statements checkUserInteractions sends to one table
\* for the id list videoIds: a single `.in('video_id', videoIds)`
InteractionQueries(videoIds) == 1

\* variant: loadVideos has no finally block
LoadingAfterFinally_Kept(isLoading) == isLoading

\* `finally { setLoading(false); }` of loadVideos
LoadingAfterFinally(isLoading) == FALSE

\* `await supabase.auth.getUser()` resolves; `if (!user) return;`
LoadGetUser ==
    /\ loadPc.at = "getUser"
    /\ IF authUser = NoUser
       THEN loading' = SetState(loading, LoadingAfterFinally(loading)) /\ loadPc' = LoadDone(FALSE)
       ELSE loading' = loading /\ loadPc' = [loadPc EXCEPT !.at = "videosQuery"]
    /\ UNCHANGED <<platform, authUser, editVars, lifeVars, scrollVars, dbVars, videos, error, interactions, tapVars, playVars>>

\* the select on videos resolves; setVideos(videosWithUsers), then
\* checkUserInteractions sends the select on video_likes
LoadVideosQuery ==
    /\ loadPc.at = "videosQuery"
    /\ \E ok \in BOOLEAN :
          IF ok
          THEN LET vs == [i \in 1..Len(dbVideos) |->
                            [id |-> dbVideos[i],
                             user_id |-> OwnerOf(dbVideos[i]),
                             title |-> dbFields[dbVideos[i]].title,
                             description |-> dbFields[dbVideos[i]].description,
                             address |-> dbFields[dbVideos[i]].address,
                             latitude |-> dbFields[dbVideos[i]].latitude,
                             longitude |-> dbFields[dbVideos[i]].longitude,
                             like_count |-> dbCount["like"][dbVideos[i]],
                             bookmark_count |-> dbCount["bookmark"][dbVideos[i]]]]
               IN /\ videos' = SetState(videos, vs)
                  /\ loadPc' = [loadPc EXCEPT !.at = "likedQuery",
                                               !.likedQueries = InteractionQueries(Range(dbVideos)),
                                               !.queriedIds = Range(dbVideos)]
                  /\ UNCHANGED <<loading, error>>
                  /\ IF SetStateApplies(screenMounted)
                     THEN \E starts \in StartChoices(vs, currentIndex) :
                             Rerender(vs, currentIndex, starts)
                     ELSE UNCHANGED <<playing, lastCommands>>
          ELSE /\ error' = SetState(error, LoadFailed)
               /\ loading' = SetState(loading, LoadingAfterFinally(loading))
               /\ loadPc' = LoadDone(FALSE)
               /\ UNCHANGED <<videos, playing, lastCommands>>
    /\ UNCHANGED <<platform, authUser, editVars, lifeVars, scrollVars, dbVars, interactions, tapVars, currentIndex,
                   isMuted, videoRefs, mounted, playerRefs, playerIsMuted, lastChanged>>

\* the select on video_likes resolves; on success the select on
\* video_bookmarks is sent
LoadLikedQuery ==
    /\ loadPc.at = "likedQuery"
    /\ \E ok \in BOOLEAN :
          IF ok
          THEN /\ loadPc' = [loadPc EXCEPT
                                !.at = "bookmarkedQuery",
                                !.likedVideos = dbRows["like"] \cap loadPc.queriedIds,
                                !.bookmarkedQueries = InteractionQueries(loadPc.queriedIds)]
               /\ UNCHANGED loading
          ELSE /\ loadPc' = LoadDone(FALSE)
               /\ loading' = SetState(loading, LoadingAfterFinally(loading))
    /\ UNCHANGED <<platform, authUser, editVars, lifeVars, scrollVars, dbVars, videos, error, interactions, tapVars, playVars>>

\* the select on video_bookmarks resolves; setInteractions(newInteractions)
LoadBookmarkedQuery ==
    /\ loadPc.at = "bookmarkedQuery"
    /\ \E ok \in BOOLEAN :
          /\ IF ok
             THEN interactions' = SetState(interactions, [v \in VideoIds |->
                       IF v \in loadPc.queriedIds
                       THEN [isLiked |-> v \in loadPc.likedVideos,
                             isBookmarked |-> v \in dbRows["bookmark"]]
                       ELSE NoInteractions[v]])
             ELSE interactions' = interactions
          /\ loadPc' = LoadDone(ok)
    /\ loading' = SetState(loading, LoadingAfterFinally(loading))
    /\ UNCHANGED <<platform, authUser, editVars, lifeVars, scrollVars, dbVars, videos, error, tapVars, playVars>>

\* Retry button of the error view: onPress={loadVideos}; setError(null)
RetryLoad ==
    /\ screenMounted
    /\ ~loading /\ error # NoError
    /\ loadPc.at = "done"
    /\ error' = NoError
    /\ loadPc' = LoadStart
    /\ UNCHANGED <<platform, authUser, editVars, lifeVars, scrollVars, dbVars, videos, loading, interactions, tapVars, playVars>>

(***************************************************************************)
(* handleLike / handleBookmark.                                            *)
(***************************************************************************)
\* `x || d` on a number
OrDefault(x, d) == IF x = 0 THEN d ELSE x

\* variant: the success branch increments whatever the flag was
AdjustedCount_AlwaysUp(k, count, was) ==
    IF k = "like" THEN count + 1 ELSE OrDefault(count, 0) + 1

\* the count the success branch of a handler stores
AdjustedCount(k, count, was) ==
    IF k = "like"
    THEN (IF was THEN count - 1 ELSE count + 1)
    ELSE (IF was THEN OrDefault(count, 1) - 1 ELSE OrDefault(count, 0) + 1)

\* setVideos(prev => prev.map(...)) of the success branch
VideosAfterToggle(vs, k, v, was) ==
    [i \in 1..Len(vs) |->
        IF vs[i].id = v
        THEN (IF k = "like"
              THEN [vs[i] EXCEPT !.like_count = AdjustedCount(k, vs[i].like_count, was)]
              ELSE [vs[i] EXCEPT !.bookmark_count = AdjustedCount(k, vs[i].bookmark_count, was)])
        ELSE vs[i]]

\* variant: the update drops the `...prev` spread, so the entries of the other
\* videos are lost
InteractionsAfterToggle_NoSpread(inter, k, v, was) ==
    [u \in VideoIds |->
        IF u # v THEN NoInteractions[u]
        ELSE IF k = "like" THEN [inter[v] EXCEPT !.isLiked = ~was]
        ELSE [inter[v] EXCEPT !.isBookmarked = ~was]]

\* variant: the update drops the `...prev[videoId]` spread, so the other flag
\* of the video is lost
InteractionsAfterToggle_NoInnerSpread(inter, k, v, was) ==
    IF k = "like"
    THEN [inter EXCEPT ![v] = [isLiked |-> ~was, isBookmarked |-> FALSE]]
    ELSE [inter EXCEPT ![v] = [isLiked |-> FALSE, isBookmarked |-> ~was]]

\* setInteractions(prev => ({...prev, [videoId]: {...prev[videoId], isLiked: !isLiked}}))
InteractionsAfterToggle(inter, k, v, was) ==
    IF k = "like"
    THEN [inter EXCEPT ![v].isLiked = ~was]
    ELSE [inter EXCEPT ![v].isBookmarked = ~was]

\* the handler is called from the button of item v: getUser resolves
\* (`if (!user) return`), the flag is read from the interactions of the render
\* that created the callback, and the statement is sent.  For the properties
\* only, the op records the count shown at the tap (preCount), whether
\* loadVideos had returned with the interactions fetched (loaded), and the
\* calls of the same kind on the same video then in flight (during).
Tap(k, v) ==
    /\ FeedShown
    /\ v \in FeedIds
    /\ authUser # NoUser
    /\ taps < MaxTaps
    /\ taps' = taps + 1
    /\ ops' = ops \cup {[n |-> taps + 1, kind |-> k, video |-> v,
                         was |-> FlagOf(interactions, v, k),
                         preCount |-> CountOf(Entry(v), k),
                         loaded |-> (loadPc.at = "done" /\ loadPc.fetched),
                         during |-> {p.n : p \in {q \in ops : q.kind = k /\ q.video = v
                                                              /\ q.stage # "settled"}},
                         stage |-> "sent", transport |-> TRUE, ok |-> FALSE]}
    /\ UNCHANGED <<platform, authUser, editVars, lifeVars, scrollVars, dbVars, videos, loadVars, interactions, playVars>>

\* the backend executes the statement of a suspended handler, or the request
\* is lost in transport
Backend(o) ==
    /\ o.stage = "sent"
    /\ \E transport \in BOOLEAN :
          LET rows == dbRows[o.kind] IN
          IF transport
          THEN /\ dbRows' = [dbRows EXCEPT ![o.kind] = RowsAfter(rows, o.video, o.was)]
               /\ dbCount' = [dbCount EXCEPT ![o.kind][o.video] =
                                 CountAfterTrigger(@, rows, o.video, o.was)]
               /\ ops' = (ops \ {o}) \cup {[o EXCEPT !.stage = "replied",
                                                    !.ok = StatementOk(rows, o.video, o.was)]}
          ELSE /\ UNCHANGED <<dbRows, dbCount>>
               /\ ops' = (ops \ {o}) \cup {[o EXCEPT !.stage = "replied",
                                                    !.transport = FALSE, !.ok = FALSE]}
    /\ UNCHANGED <<platform, authUser, editVars, lifeVars, scrollVars, dbVideos, videos, loadVars, interactions, taps, playVars>>

\* variant: the error of the response is not checked
ResponseThrows_Never(ok) == FALSE

\* `if (error) throw error;` skips the two state updates
ResponseThrows(ok) == ~ok

\* the await of a suspended handler resolves: `if (error) throw error`, then
\* the two state updates; the catch block only logs
Settle(o) ==
    /\ o.stage = "replied"
    /\ ops' = (ops \ {o}) \cup {[o EXCEPT !.stage = "settled"]}
    /\ IF ~ResponseThrows(o.ok) /\ SetStateApplies(screenMounted)
       THEN LET vs == VideosAfterToggle(videos, o.kind, o.video, o.was)
            IN /\ videos' = vs
               /\ interactions' = InteractionsAfterToggle(interactions, o.kind, o.video, o.was)
               /\ \E starts \in StartChoices(vs, currentIndex) : Rerender(vs, currentIndex, starts)
       ELSE UNCHANGED <<videos, interactions, playing, lastCommands>>
    /\ UNCHANGED <<platform, authUser, editVars, lifeVars, scrollVars, dbVars, loadVars, taps, currentIndex, isMuted,
                   videoRefs, mounted, playerRefs, playerIsMuted, lastChanged>>

(***************************************************************************)
(* Playback events.                                                        *)
(***************************************************************************)
ViewTokens == [index : 0..(MaxVideos - 1), isViewable : BOOLEAN]

\* the `changed` lists FlatList can report for the feed: one token per item
ChangedLists ==
    {c \in UNION {[1..n -> ViewTokens] : n \in 1..MaxChanged} :
        /\ \A i \in 1..Len(c) : c[i].index < Len(videos)
        /\ \A i, j \in 1..Len(c) : i # j => c[i].index # c[j].index}

\* variant: the handler reads the last changed token instead of changed[0]
IndexAfterChanged_LastToken(cur, changed) ==
    IF changed[Len(changed)].isViewable THEN changed[Len(changed)].index ELSE cur

\* handleViewableItemsChanged: the index the handler stores
IndexAfterChanged(cur, changed) ==
    IF changed[1].isViewable THEN changed[1].index ELSE cur

\* handleViewableItemsChanged({ changed }) and the re-render it causes
HandleViewableItemsChanged(changed) ==
    /\ LET cur == IndexAfterChanged(currentIndex, changed) IN
       /\ currentIndex' = cur
       /\ IF cur # currentIndex
          THEN \E starts \in StartChoices(videos, cur) : Rerender(videos, cur, starts)
          ELSE UNCHANGED <<playing, lastCommands>>
    /\ lastChanged' = [first |-> changed[1], length |-> Len(changed), before |-> currentIndex]

\* FlatList calls onViewableItemsChanged with some list of changed tokens
ViewableItemsChanged(changed) ==
    /\ FeedShown
    /\ Len(videos) > 0
    /\ HandleViewableItemsChanged(changed)
    /\ UNCHANGED <<platform, authUser, editVars, lifeVars, scrollVars, dbVars, videos, loadVars, interactions, tapVars,
                   isMuted, videoRefs, mounted, playerRefs, playerIsMuted>>

\* FlatList mounts the MemoizedVideoPlayer of item v
MountPlayer(v) ==
    /\ FeedShown
    /\ v \in FeedIds \ mounted
    /\ mounted' = mounted \cup {v}
    /\ playerRefs' = [playerRefs EXCEPT ![v] = PlayerRefsOnMount(@, v)]
    /\ videoRefs' = ScrollRefsOnMount(videoRefs, v)
    /\ playerIsMuted' = [playerIsMuted EXCEPT ![v] = PlayerMutedOnMount(isMuted)]
    /\ playing' = IF IsCurrentVideo(videos, currentIndex, v) THEN playing \cup {v} ELSE playing
    /\ UNCHANGED <<platform, authUser, editVars, lifeVars, scrollVars, dbVars, videos, loadVars, interactions, tapVars,
                   currentIndex, isMuted, lastCommands, lastChanged>>

\* FlatList unmounts the player of item v (windowSize, removeClippedSubviews);
\* the ref callback ignores the null it is called with
UnmountPlayer(v) ==
    /\ v \in mounted
    /\ mounted' = mounted \ {v}
    /\ playing' = playing \ {v}
    /\ playerRefs' = [playerRefs EXCEPT ![v] = {}]
    /\ playerIsMuted' = [playerIsMuted EXCEPT ![v] = FALSE]
    /\ UNCHANGED <<platform, authUser, editVars, lifeVars, scrollVars, dbVars, videos, loadVars, interactions, tapVars,
                   currentIndex, isMuted, videoRefs, lastCommands, lastChanged>>

\* mute button: onPress={() => videoState.setIsMuted(!videoState.isMuted)}
ToggleMute ==
    /\ FeedShown
    /\ Len(videos) > 0
    /\ isMuted' = ~isMuted
    /\ playerIsMuted' = [v \in VideoIds |->
                            IF v \in mounted
                            THEN PlayerMutedOnToggle(playerIsMuted[v], ~isMuted)
                            ELSE playerIsMuted[v]]
    /\ UNCHANGED <<platform, authUser, editVars, lifeVars, scrollVars, dbVars, videos, loadVars, interactions, tapVars,
                   currentIndex, videoRefs, mounted, playerRefs, playing, lastCommands,
                   lastChanged>>

(***************************************************************************)
(* The edit session: bottom sheet, edit modal, location lookups and save.  *)
(***************************************************************************)
\* `x || d`
OrElse(x, d) == IF x \in Falsy THEN d ELSE x

\* String.prototype.trim on the texts of the model: " " is the only one with
\* leading or trailing white space
Trim(text) == IF text = " " THEN "" ELSE text

\* the draft openBottomSheet builds from a feed entry
DraftOf(video) ==
    [id |-> video.id,
     title |-> OrElse(video.title, ""),
     description |-> OrElse(video.description, ""),
     address |-> OrElse(video.address, ""),
     latitude |-> OrElse(video.latitude, Null),
     longitude |-> OrElse(video.longitude, Null)]

\* the edit modal is on screen
EditOpen == FeedShown /\ editModalVisible

\* getCurrentUser: `await supabase.auth.getUser()` resolves; setCurrentUserId
GetCurrentUser ==
    /\ screenMounted
    /\ currentUserId = NoUser
    /\ authUser # NoUser
    /\ currentUserId' = SetState(currentUserId, authUser)
    /\ UNCHANGED <<platform, authUser, lifeVars, scrollVars, dbVars, videos, loadVars,
                   interactions, tapVars, playVars, dbFields, bottomSheetVisible,
                   editModalVisible, editVideoData, locationLoading, locationError, saving,
                   locOps, saveOp, edits, saves>>

\* variant: the Edit button is rendered on every item
EditButtonShown_Always(userId, video) == TRUE

\* `currentUserId === item.user_id &&` around the Edit button of an item
EditButtonShown(userId, video) == userId = video.user_id

\* Edit button of item v: openBottomSheet(item)
OpenBottomSheet(v) ==
    /\ FeedShown
    /\ ~bottomSheetVisible /\ ~editModalVisible
    /\ v \in FeedIds
    /\ EditButtonShown(currentUserId, Entry(v))
    /\ bottomSheetVisible' = TRUE
    /\ editVideoData' = DraftOf(Entry(v))
    /\ UNCHANGED <<platform, authUser, lifeVars, scrollVars, dbVars, videos, loadVars,
                   interactions, tapVars, playVars, currentUserId, dbFields,
                   editModalVisible, locationLoading, locationError, saving,
                   locOps, saveOp, edits, saves>>

\* overlay, Share, Delete and onRequestClose of the bottom sheet
CloseBottomSheet ==
    /\ FeedShown
    /\ bottomSheetVisible
    /\ bottomSheetVisible' = FALSE
    /\ UNCHANGED <<platform, authUser, lifeVars, scrollVars, dbVars, videos, loadVars,
                   interactions, tapVars, playVars, currentUserId, dbFields,
                   editModalVisible, editVideoData, locationLoading, locationError, saving,
                   locOps, saveOp, edits, saves>>

\* "Edit Video Details" of the bottom sheet
OpenEditModal ==
    /\ FeedShown
    /\ bottomSheetVisible
    /\ bottomSheetVisible' = FALSE
    /\ editModalVisible' = TRUE
    /\ UNCHANGED <<platform, authUser, lifeVars, scrollVars, dbVars, videos, loadVars,
                   interactions, tapVars, playVars, currentUserId, dbFields,
                   editVideoData, locationLoading, locationError, saving,
                   locOps, saveOp, edits, saves>>

\* variant: a text change is written through to the feed entry of the draft
VideosAfterDraftChange_WriteThrough(vs, draft) ==
    [i \in 1..Len(vs) |->
        IF vs[i].id = draft.id
        THEN [vs[i] EXCEPT !.title = draft.title, !.description = draft.description,
                           !.address = draft.address]
        ELSE vs[i]]

\* `videos` after an onChangeText handler ran: the handlers call
\* setEditVideoData only
VideosAfterDraftChange(vs, draft) == vs

\* onChangeText of the title, description or address input
ChangeText(field, text) ==
    /\ EditOpen
    /\ edits < MaxEdits
    /\ edits' = edits + 1
    /\ editVideoData' = [editVideoData EXCEPT ![field] = text]
    /\ videos' = VideosAfterDraftChange(videos, editVideoData')
    /\ UNCHANGED <<platform, authUser, lifeVars, scrollVars, dbVars, loadVars,
                   interactions, tapVars, playVars, currentUserId, dbFields,
                   bottomSheetVisible, editModalVisible, locationLoading, locationError,
                   saving, locOps, saveOp, saves>>

\* Cancel button, back arrow and onRequestClose of the edit modal
CancelEdit ==
    /\ EditOpen
    /\ editModalVisible' = FALSE
    /\ UNCHANGED <<platform, authUser, lifeVars, scrollVars, dbVars, videos, loadVars,
                   interactions, tapVars, playVars, currentUserId, dbFields,
                   bottomSheetVisible, editVideoData, locationLoading, locationError,
                   saving, locOps, saveOp, edits, saves>>

\* variant: the two location buttons are never disabled
LocationButtonDisabled_Never(isLoading) == FALSE

\* disabled={interactionState.locationLoading} of the two location buttons
LocationButtonDisabled(isLoading) == isLoading

\* the navigation button: getCurrentLocation up to its first await,
\* Location.requestForegroundPermissionsAsync()
StartCurrentLocation ==
    /\ EditOpen
    /\ ~LocationButtonDisabled(locationLoading)
    /\ locationLoading' = TRUE
    /\ locationError' = Null
    /\ locOps' = locOps \cup {[kind |-> "current", stage |-> "permission", query |-> Null]}
    /\ UNCHANGED <<platform, authUser, lifeVars, scrollVars, dbVars, videos, loadVars,
                   interactions, tapVars, playVars, currentUserId, dbFields,
                   bottomSheetVisible, editModalVisible, editVideoData, saving, saveOp,
                   edits, saves>>

\* variant: an address is never rejected before the geocoding call
AddressMissing_Never(draft) == FALSE

\* `!interactionState.editVideoData?.address.trim()`
AddressMissing(draft) == IF draft = NoDraft THEN TRUE ELSE Trim(draft.address) \in Falsy

\* the search button: searchAddress up to its await, Location.geocodeAsync
SearchAddress ==
    /\ EditOpen
    /\ ~LocationButtonDisabled(locationLoading)
    /\ IF AddressMissing(editVideoData)
       THEN /\ locationError' = EnterAddress
            /\ UNCHANGED <<locationLoading, locOps>>
       ELSE /\ locationLoading' = TRUE
            /\ locationError' = Null
            /\ locOps' = locOps \cup {[kind |-> "search", stage |-> "geocode",
                                        query |-> editVideoData.address]}
    /\ UNCHANGED <<platform, authUser, lifeVars, scrollVars, dbVars, videos, loadVars,
                   interactions, tapVars, playVars, currentUserId, dbFields,
                   bottomSheetVisible, editModalVisible, editVideoData, saving, saveOp,
                   edits, saves>>

\* the catch / early-return and finally blocks of a location call that ends
\* with message msg
LocationEndsWith(o, msg) ==
    /\ locationError' = SetState(locationError, msg)
    /\ locationLoading' = SetState(locationLoading, FALSE)
    /\ locOps' = locOps \ {o}
    /\ UNCHANGED editVideoData

\* the functional update of a location call that succeeded, and its finally
LocationStores(o, draft) ==
    /\ editVideoData' = SetState(editVideoData, draft)
    /\ locationLoading' = SetState(locationLoading, FALSE)
    /\ locOps' = locOps \ {o}
    /\ UNCHANGED locationError

\* an await of a suspended getCurrentLocation call resolves or rejects
CurrentLocationStep(o) ==
    /\ o.kind = "current"
    /\ \E outcome \in {"ok", "none", "throws"} :
          CASE outcome = "throws" -> LocationEndsWith(o, CurrentLocationFailed)
            [] outcome # "throws" /\ o.stage = "permission" ->
                  IF outcome = "ok"
                  THEN /\ locOps' = (locOps \ {o}) \cup {[o EXCEPT !.stage = "position"]}
                       /\ UNCHANGED <<editVideoData, locationLoading, locationError>>
                  ELSE LocationEndsWith(o, PermissionDenied)
            [] outcome = "ok" /\ o.stage = "position" ->
                  /\ locOps' = (locOps \ {o}) \cup {[o EXCEPT !.stage = "reverse"]}
                  /\ UNCHANGED <<editVideoData, locationLoading, locationError>>
            [] outcome # "throws" /\ o.stage = "reverse" ->
                  LocationStores(o, [editVideoData EXCEPT
                      !.address = IF outcome = "ok" THEN FormattedAddress ELSE UnknownLocation,
                      !.latitude = DeviceLatitude,
                      !.longitude = DeviceLongitude])
            [] OTHER -> FALSE
    /\ UNCHANGED <<platform, authUser, lifeVars, scrollVars, dbVars, videos, loadVars,
                   interactions, tapVars, playVars, currentUserId, dbFields,
                   bottomSheetVisible, editModalVisible, saving, saveOp, edits, saves>>

\* Location.geocodeAsync of a suspended searchAddress call resolves or rejects
GeocodeResolves(o) ==
    /\ o.kind = "search"
    /\ \E outcome \in {"ok", "none", "throws"} :
          CASE outcome = "throws" -> LocationEndsWith(o, GeocodeFailed)
            [] outcome = "none" -> LocationEndsWith(o, AddressNotFound)
            [] OTHER ->
                  LocationStores(o, [editVideoData EXCEPT
                      !.latitude = GeocodedLatitude,
                      !.longitude = GeocodedLongitude])
    /\ UNCHANGED <<platform, authUser, lifeVars, scrollVars, dbVars, videos, loadVars,
                   interactions, tapVars, playVars, currentUserId, dbFields,
                   bottomSheetVisible, editModalVisible, saving, saveOp, edits, saves>>

\* disabled={interactionState.saving} / loading={interactionState.saving} of
\* the two save buttons
SaveButtonDisabled(isSaving) == isSaving

\* a save button: saveVideoChanges up to its await, the update of videos
SaveVideoChanges ==
    /\ EditOpen
    /\ ~SaveButtonDisabled(saving)
    /\ editVideoData # NoDraft
    /\ saves < MaxSaves
    /\ saves' = saves + 1
    /\ saving' = TRUE
    /\ saveOp' = [stage |-> "sent", sent |-> editVideoData]
    /\ UNCHANGED <<platform, authUser, lifeVars, scrollVars, dbVars, videos, loadVars,
                   interactions, tapVars, playVars, currentUserId, dbFields,
                   bottomSheetVisible, editModalVisible, editVideoData, locationLoading,
                   locationError, locOps, edits>>

\* the columns the update statement writes
ColumnsOf(draft) ==
    [title |-> draft.title, description |-> draft.description, address |-> draft.address,
     latitude |-> draft.latitude, longitude |-> draft.longitude]

\* variant: the success branch stores the title only
VideosAfterSave_TitleOnly(vs, draft) ==
    [i \in 1..Len(vs) |->
        IF vs[i].id = draft.id THEN [vs[i] EXCEPT !.title = draft.title] ELSE vs[i]]

\* setVideos(prev => prev.map(...)) of the success branch; the draft is the
\* editVideoData of the render in which the save button was pressed
VideosAfterSave(vs, draft) ==
    [i \in 1..Len(vs) |->
        IF vs[i].id = draft.id
        THEN [vs[i] EXCEPT !.title = draft.title,
                           !.description = draft.description,
                           !.address = draft.address,
                           !.latitude = draft.latitude,
                           !.longitude = draft.longitude]
        ELSE vs[i]]

\* variant: the catch block also closes the modal
ModalAfterFailedSave_Closes(visible) == FALSE

\* editModalVisible after the catch block of saveVideoChanges: the block sets
\* the error message only
ModalAfterFailedSave(visible) == visible

\* the update resolves: `if (error) throw error`, the success branch or the
\* catch block, and the finally block
SaveResolves ==
    /\ saveOp.stage = "sent"
    /\ \E ok \in BOOLEAN :
          IF ok
          THEN LET vs == VideosAfterSave(videos, saveOp.sent) IN
               /\ dbFields' = [dbFields EXCEPT ![saveOp.sent.id] = ColumnsOf(saveOp.sent)]
               /\ videos' = SetState(videos, vs)
               /\ editModalVisible' = SetState(editModalVisible, FALSE)
               /\ saveOp' = [stage |-> "saved", sent |-> NoDraft]
               /\ UNCHANGED locationError
               /\ IF SetStateApplies(screenMounted)
                  THEN \E starts \in StartChoices(vs, currentIndex) :
                          Rerender(vs, currentIndex, starts)
                  ELSE UNCHANGED <<playing, lastCommands>>
          ELSE /\ locationError' = SetState(locationError, UpdateFailed)
               /\ editModalVisible' = ModalAfterFailedSave(editModalVisible)
               /\ saveOp' = [stage |-> "failed", sent |-> NoDraft]
               /\ UNCHANGED <<dbFields, videos, playing, lastCommands>>
    /\ saving' = SetState(saving, FALSE)
    /\ UNCHANGED <<platform, authUser, lifeVars, scrollVars, dbVars, loadVars,
                   interactions, tapVars, currentIndex, isMuted, videoRefs, mounted,
                   playerRefs, playerIsMuted, lastChanged, currentUserId,
                   bottomSheetVisible, editVideoData, locationLoading, locOps, edits, saves>>

(***************************************************************************)
(* Scrolling: the paging FlatList and its viewability reports              *)
(* (itemVisiblePercentThreshold: 50, no minimumViewTime).                  *)
(***************************************************************************)
\* the user flings the list from the page it rests on towards page p
Fling(p) ==
    /\ FeedShown
    /\ flingTo = restPage
    /\ p \in 0..(Len(videos) - 1)
    /\ p # restPage
    /\ flingTo' = p
    /\ UNCHANGED <<platform, authUser, editVars, lifeVars, dbVars, videos, loadVars, interactions,
                   tapVars, playVars, restPage, visiblePage>>

\* the pages the list reports when the next page crosses the 50% threshold:
\* the page that became viewable and the page that stopped being viewable
CrossingTokens(old, new) ==
    {<<[index |-> new, isViewable |-> TRUE], [index |-> old, isViewable |-> FALSE]>>,
     <<[index |-> old, isViewable |-> FALSE], [index |-> new, isViewable |-> TRUE]>>}

\* while the list moves, the next page on the way crosses the threshold and
\* FlatList calls onViewableItemsChanged
CrossThreshold ==
    /\ FeedShown
    /\ visiblePage # flingTo
    /\ LET next == IF flingTo > visiblePage THEN visiblePage + 1 ELSE visiblePage - 1 IN
       /\ visiblePage' = next
       /\ \E changed \in CrossingTokens(visiblePage, next) :
             HandleViewableItemsChanged(changed)
    /\ UNCHANGED <<platform, authUser, editVars, lifeVars, dbVars, videos, loadVars, interactions,
                   tapVars, isMuted, videoRefs, mounted, playerRefs, playerIsMuted,
                   restPage, flingTo>>

\* the list comes to rest on the page the fling ends on; the FlatList has no
\* onMomentumScrollEnd / onScrollEndDrag handler, so no code of the screen runs
ScrollSettle ==
    /\ FeedShown
    /\ flingTo # restPage
    /\ visiblePage = flingTo
    /\ restPage' = flingTo
    /\ UNCHANGED <<platform, authUser, editVars, lifeVars, dbVars, videos, loadVars, interactions,
                   tapVars, playVars, flingTo, visiblePage>>

(***************************************************************************)
(* Screen lifecycle: the mount effect of VideoScroll and its cleanup.      *)
(***************************************************************************)
\* the commands the cleanup of the mount effect issues to the player handles:
\* it calls Audio.setAudioModeAsync only
CleanupCommands(cmds) == cmds

\* VideoScroll unmounts: the cleanup of the mount effect runs and React
\* unmounts the players, which destroys their elements
UnmountScreen ==
    /\ screenMounted
    /\ screenMounted' = FALSE
    /\ audioMode' = ResetAudioMode
    /\ lastCommands' = CleanupCommands(lastCommands)
    /\ mounted' = {}
    /\ playing' = {}
    /\ playerRefs' = [v \in VideoIds |-> {}]
    /\ playerIsMuted' = [v \in VideoIds |-> FALSE]
    /\ UNCHANGED <<platform, authUser, editVars, scrollVars, dbVars, videos, loadVars, interactions, tapVars,
                   currentIndex, isMuted, videoRefs, lastChanged, appState>>

\* the app goes to the background while the screen is mounted.  The screen
\* registers no AppState listener, so none of its code runs; whether the
\* operating system suspends the media elements is outside the program.
AppBackground ==
    /\ screenMounted
    /\ appState = "active"
    /\ appState' = "background"
    /\ playing' \in {playing, {}}
    /\ UNCHANGED <<platform, authUser, editVars, scrollVars, dbVars, videos, loadVars, interactions, tapVars,
                   currentIndex, isMuted, videoRefs, mounted, playerRefs, playerIsMuted,
                   lastCommands, lastChanged, screenMounted, audioMode>>

\* the app returns to the foreground; again no code of the screen runs, and
\* the operating system may resume the element whose shouldPlay / autoplay
\* attribute is set
AppForeground ==
    /\ screenMounted
    /\ appState = "background"
    /\ appState' = "active"
    /\ playing' \in {playing,
                     playing \cup {v \in mounted : IsCurrentVideo(videos, currentIndex, v)}}
    /\ UNCHANGED <<platform, authUser, editVars, scrollVars, dbVars, videos, loadVars, interactions, tapVars,
                   currentIndex, isMuted, videoRefs, mounted, playerRefs, playerIsMuted,
                   lastCommands, lastChanged, screenMounted, audioMode>>

(***************************************************************************)
(* Specifications.                                                         *)
(***************************************************************************)
LoadStep == LoadGetUser \/ LoadVideosQuery \/ LoadLikedQuery \/ LoadBookmarkedQuery \/ RetryLoad

NextInteraction ==
    \/ LoadStep
    \/ \E k \in Kinds, v \in VideoIds : Tap(k, v)
    \/ \E o \in ops : Backend(o)
    \/ \E o \in ops : Settle(o)

NextPlayback ==
    \/ LoadStep
    \/ \E c \in ChangedLists : ViewableItemsChanged(c)
    \/ \E v \in VideoIds : MountPlayer(v)
    \/ \E v \in VideoIds : UnmountPlayer(v)
    \/ ToggleMute

\* playback together with the exits from the screen
NextLifecycle ==
    \/ LoadStep
    \/ \E c \in ChangedLists : ViewableItemsChanged(c)
    \/ \E v \in VideoIds : MountPlayer(v)
    \/ UnmountScreen
    \/ AppBackground
    \/ AppForeground

\* the toggles together with the unmount of the screen
NextTeardown ==
    \/ LoadStep
    \/ \E k \in Kinds, v \in VideoIds : Tap(k, v)
    \/ \E o \in ops : Backend(o)
    \/ \E o \in ops : Settle(o)
    \/ UnmountScreen

\* playback driven by the scroll position
NextScroll ==
    \/ LoadStep
    \/ \E v \in VideoIds : MountPlayer(v)
    \/ \E v \in VideoIds : UnmountPlayer(v)
    \/ \E p \in 0..(MaxVideos - 1) : Fling(p)
    \/ CrossThreshold
    \/ ScrollSettle

\* opening, typing into and cancelling the edit form, on a feed whose first
\* load is not retried
EditFormStep ==
    \/ LoadGetUser
    \/ LoadVideosQuery
    \/ LoadLikedQuery
    \/ LoadBookmarkedQuery
    \/ GetCurrentUser
    \/ \E v \in VideoIds : OpenBottomSheet(v)
    \/ CloseBottomSheet
    \/ OpenEditModal
    \/ \E text \in Texts : ChangeText("title", text)
    \/ \E text \in Texts : ChangeText("description", text)
    \/ \E text \in Addresses : ChangeText("address", text)
    \/ CancelEdit

\* the edit session with its save
NextEdit ==
    \/ EditFormStep
    \/ SaveVideoChanges
    \/ SaveResolves

\* the edit session with its location lookups
NextLocation ==
    \/ EditFormStep
    \/ StartCurrentLocation
    \/ SearchAddress
    \/ \E o \in locOps : CurrentLocationStep(o)
    \/ \E o \in locOps : GeocodeResolves(o)

Next ==
    \/ NextInteraction \/ NextPlayback \/ NextLifecycle \/ NextTeardown \/ NextScroll
    \/ NextEdit \/ NextLocation

Spec == Init /\ [][Next]_vars

\* the toggles alone: no player is ever mounted, so one platform suffices
InitInteraction ==
    /\ Init
    /\ platform = "native"
    /\ Len(dbVideos) <= MaxShortFeed
    /\ dbFields[AllVideoIds[1]].address = Null
SpecInteraction == InitInteraction /\ [][NextInteraction]_vars

\* playback alone: no toggle is ever issued, so one content of the interaction
\* tables suffices
InitPlayback ==
    /\ Init
    /\ Len(dbVideos) <= MaxShortFeed
    /\ dbRows = [k \in Kinds |-> {}]
    /\ dbCount["like"][AllVideoIds[1]] = 0
    /\ dbFields[AllVideoIds[1]].address = Null
SpecPlayback == InitPlayback /\ [][NextPlayback]_vars

SpecLifecycle == InitPlayback /\ [][NextLifecycle]_vars

\* scrolling through feeds of up to MaxVideos pages
InitScroll ==
    /\ Init
    /\ dbRows = [k \in Kinds |-> {}]
    /\ dbCount["like"][AllVideoIds[1]] = 0
    /\ dbFields[AllVideoIds[1]].address = Null
SpecScroll == InitScroll /\ [][NextScroll]_vars

\* the edit session of a signed-in user: no toggle is issued and no player is
\* mounted
InitEdit ==
    /\ Init
    /\ platform = "native"
    /\ authUser = Me
    /\ Len(dbVideos) <= MaxShortFeed
    /\ dbRows = [k \in Kinds |-> {}]
    /\ dbCount["like"][AllVideoIds[1]] = 0
SpecEdit == InitEdit /\ [][NextEdit]_vars
SpecLocation == InitEdit /\ [][NextLocation]_vars

\* edit sessions on a feed of MaxVideos videos, two of them the user's own
InitSessions ==
    /\ Init
    /\ platform = "native"
    /\ authUser = Me
    /\ Len(dbVideos) = MaxVideos
    /\ dbRows = [k \in Kinds |-> {}]
    /\ dbCount["like"][AllVideoIds[1]] = 0
SpecSessions == InitSessions /\ [][NextLocation]_vars

\* loadVideos alone, with its retries; every await of a running call is
\* answered in the end (the supabase client resolves or rejects each request)
LoadAwaitResolves == LoadGetUser \/ LoadVideosQuery \/ LoadLikedQuery \/ LoadBookmarkedQuery
SpecLoad == Init /\ [][LoadStep]_vars /\ WF_vars(LoadAwaitResolves)

\* the toggles of a feed whose interaction tables are empty, and the unmount
InitTeardown == InitInteraction /\ dbRows = [k \in Kinds |-> {}]
SpecTeardown == InitTeardown /\ [][NextTeardown]_vars

(***************************************************************************)
(* Properties of playback, checked under SpecPlayback.                     *)
(***************************************************************************)
\* C1: in every reachable state at most one player is in the playing state.
C1_AtMostOnePlaying == Cardinality(playing) <= 1

\* C8: the muted setting applied to every mounted player equals the single
\* isMuted value the mute button flips.
C8_PlayersHonorMute == \A v \in mounted : playerIsMuted[v] = isMuted

\* C9: right after a viewability event made index i current, the mounted
\* player at index i is the one and only player playing.
C9_ExactlyOneAfterSetActiveIndex ==
    [][currentIndex' # currentIndex =>
          \A v \in mounted' : v \in playing' <=> IsCurrentVideo(videos', currentIndex', v)]_vars

\* C10: a viewability event that reports the index that is already current
\* leaves the active index, the playing players and the commands of the last
\* effect pass as they are.
C10_SetActiveIndexIdempotent ==
    [][(/\ lastChanged' # lastChanged
        /\ lastChanged'.first.isViewable
        /\ lastChanged'.first.index = currentIndex)
          => UNCHANGED <<currentIndex, playing, lastCommands, mounted, videos>>]_vars

\* C10 witness: the last event reported the current index again while a player plays
C10_Witness ==
    /\ lastChanged.length = MaxChanged
    /\ lastChanged.first.isViewable
    /\ lastChanged.first.index = lastChanged.before
    /\ currentIndex = lastChanged.before
    /\ playing # {}

(***************************************************************************)
(* Properties of the like / bookmark toggles, checked under                *)
(* SpecInteraction.                                                        *)
(***************************************************************************)
InFlight == {o \in ops : o.stage # "settled"}

\* the step is the one in which the suspended handler o resumes and returns
Settles(o) == o.stage = "replied" /\ o \notin ops'

\* the step is the one in which the backend executes the statement of o
Executes(o) == o.stage = "sent" /\ o \notin ops'

\* likes / bookmarks of video v given by other users: the triggers keep the
\* count column equal to the number of rows
OthersCount(k, v) == dbCount[k][v] - (IF v \in dbRows[k] THEN 1 ELSE 0)

\* no other call of the same kind on the same video overlapped call o, and the
\* feed had finished loading when o was made
Isolated(o) ==
    /\ o.loaded
    /\ \A p \in ops : (p # o /\ p.kind = o.kind /\ p.video = o.video) =>
          (p.stage = "settled" /\ o.n \notin p.during /\ p.n \notin o.during /\ p.n < o.n)

\* C2: when a second like of a video was issued while the first was in flight
\* and every like of that video has settled, like_count counts the current
\* user's like exactly once if isLiked and not at all otherwise.
C2_RapidLikesStayInSync ==
    \A o1, o2 \in ops :
        (/\ o1.kind = "like" /\ o2.kind = "like" /\ o1.video = o2.video
         /\ o1.loaded /\ o1.n \in o2.during
         /\ \A p \in InFlight : ~(p.kind = "like" /\ p.video = o1.video))
        => Entry(o1.video).like_count
              = OthersCount("like", o1.video)
                + (IF interactions[o1.video].isLiked THEN 1 ELSE 0)

\* C3: a handler whose mutation failed changes neither the flags nor the
\* counts nor the error state and issues no further mutation when it settles;
\* if no other toggle of that flag overlapped it, flag and count then equal
\* the values they had when the toggle was invoked.
C3_FailedToggleRestoresState ==
    [][\A o \in ops :
          (Settles(o) /\ ~o.ok) =>
             /\ UNCHANGED <<videos, interactions, error, loading, dbRows, dbCount>>
             /\ InFlight' = InFlight \ {o}
             /\ (Isolated(o) =>
                    /\ FlagOf(interactions', o.video, o.kind) = o.was
                    /\ CountOf(Entry(o.video)', o.kind) = o.preCount)]_vars

\* C3 witness: an isolated like and an isolated bookmark have failed and settled
C3_Witness ==
    \E o, p \in ops :
        /\ o.kind = "like" /\ p.kind = "bookmark"
        /\ o.stage = "settled" /\ ~o.ok /\ Isolated(o)
        /\ p.stage = "settled" /\ ~p.ok /\ Isolated(p)

C5_FlagsMatchBackendWhenIdle ==
    \A k \in Kinds, v \in FeedIds :
        (/\ loadPc.at = "done" /\ loadPc.fetched
         /\ \A o \in InFlight : ~(o.kind = k /\ o.video = v))
        => (FlagOf(interactions, v, k) = (v \in dbRows[k]))

\* C6: the feed has loaded, B is not liked; the only two taps are likes of B and
\* no request was lost: after both settled, B's like_count and isLiked are
\* what they were before the first tap.
C6_LikeThenUnlikeRestores ==
    \A o1, o2 \in ops :
        (/\ taps = 2 /\ o1.n = 1 /\ o2.n = 2
         /\ o1.kind = "like" /\ o2.kind = "like" /\ o1.video = o2.video
         /\ o1.loaded /\ ~o1.was
         /\ o1.stage = "settled" /\ o2.stage = "settled"
         /\ o1.transport /\ o2.transport)
        => /\ Entry(o1.video).like_count = o1.preCount
           /\ interactions[o1.video].isLiked = o1.was

\* the part of the screen and backend state that belongs to video v
StateOfVideo(v) ==
    <<IF v \in FeedIds THEN Entry(v) ELSE <<>>, interactions[v],
      v \in dbRows["like"], v \in dbRows["bookmark"],
      dbCount["like"][v], dbCount["bookmark"][v]>>

\* C7: a step of a toggle on one video changes nothing that belongs to another
\* video, and a pending toggle on one video never disables a toggle on another.
C7_TogglesOnOtherVideosIndependent ==
    /\ [][\A o \in ops :
             (Executes(o) \/ Settles(o)) =>
                \A v \in VideoIds \ {o.video} : StateOfVideo(v)' = StateOfVideo(v)]_vars
    /\ [](\A k \in Kinds, v \in FeedIds :
             (FeedShown /\ authUser # NoUser /\ taps < MaxTaps) => ENABLED Tap(k, v))

\* C7 witness: toggles on two videos were in flight together; the later one has
\* settled with success while the earlier one is still in flight
C7_Witness ==
    \E o, p \in ops :
        /\ o.video # p.video
        /\ o.n < p.n
        /\ o.stage # "settled"
        /\ p.stage = "settled" /\ p.ok
        /\ interactions[o.video] # NoInteractions[o.video]

(***************************************************************************)
(* Properties of the screen lifecycle, checked under SpecLifecycle and     *)
(* SpecTeardown.                                                           *)
(***************************************************************************)
\* the step leaves the feed: the screen unmounts or the app is backgrounded
ExitStep ==
    \/ screenMounted /\ ~screenMounted'
    \/ appState = "active" /\ appState' = "background"

\* C11: on every exit from the feed screen (unmount, app backgrounding) every
\* player that had registered a handle receives a stop command, the audio mode
\* is reset, and no player is playing afterwards.
C11_TeardownStopsEverything ==
    [][ExitStep =>
          /\ \A v \in mounted : lastCommands'[v] = "stop"
          /\ audioMode' = ResetAudioMode
          /\ playing' = {}]_vars

\* the pages a fling under way passes without coming to rest on them
PassedPages ==
    {p \in 0..(MaxVideos - 1) : (restPage < p /\ p < flingTo) \/ (flingTo < p /\ p < restPage)}

\* C12: while a fling carries the list across pages without resting on them,
\* none of these pages is the active index, none of their players has been
\* started, and the active index is the page the list rested on or the page the
\* fling ends on.
C12_FlingSkipsIntermediatePages ==
    /\ \A p \in PassedPages :
          /\ currentIndex # p
          /\ p < Len(videos) => /\ videos[p + 1].id \notin playing
                                 /\ lastCommands[videos[p + 1].id] # "start"
    /\ currentIndex \in {restPage, flingTo}

\* C14: whatever the number of videos, a load issues at most one query on
\* video_likes and one on video_bookmarks, each restricted to the ids of the
\* loaded videos: one liked query once the videos are loaded, one bookmarked
\* query once the liked query has answered, and the load that stores the
\* interactions has issued exactly one of each.
C14_BatchedInteractionQueries ==
    /\ loadPc.at \in {"getUser", "videosQuery"} =>
          loadPc.likedQueries = 0 /\ loadPc.bookmarkedQueries = 0
    /\ loadPc.at = "likedQuery" =>
          loadPc.likedQueries = 1 /\ loadPc.bookmarkedQueries = 0
    /\ loadPc.at = "bookmarkedQuery" =>
          loadPc.likedQueries = 1 /\ loadPc.bookmarkedQueries = 1
    /\ loadPc.at \in {"likedQuery", "bookmarkedQuery"} =>
          loadPc.queriedIds = FeedIds /\ Cardinality(FeedIds) = Len(dbVideos)

\* C14 witness: a feed of MaxVideos videos is loaded and both queries are out
C14_Witness ==
    /\ loadPc.at = "bookmarkedQuery"
    /\ Len(videos) = MaxVideos
    /\ loadPc.likedQueries = 1 /\ loadPc.bookmarkedQueries = 1

Editable(r) ==
    [title |-> r.title, description |-> r.description, address |-> r.address,
     latitude |-> r.latitude, longitude |-> r.longitude]

\* C15: in a session in which save is never pressed, whatever is opened,
\* typed, resolved by a location lookup and cancelled, every video of the feed
\* keeps the columns it was loaded with, the stored columns are the initial
\* ones, and no update is issued.
C15_CancelLeavesVideosUnchanged ==
    /\ \E stored \in StoredFieldSets :
          /\ dbFields = [v \in VideoIds |-> stored]
          /\ \A i \in 1..Len(videos) :
                /\ Editable(videos[i]) = stored
                /\ videos[i].id = dbVideos[i]
                /\ videos[i].user_id = OwnerOf(dbVideos[i])
                /\ videos[i].like_count = dbCount["like"][dbVideos[i]]
                /\ videos[i].bookmark_count = dbCount["bookmark"][dbVideos[i]]
    /\ saveOp = NoSave
    /\ saves = 0

\* C15 witness: a session on the first video was cancelled after MaxEdits
\* texts were typed and a current-location lookup stored its result; the
\* abandoned draft differs from the feed entry in title, address and position
C15_Witness ==
    /\ FeedShown
    /\ ~editModalVisible /\ ~bottomSheetVisible
    /\ Len(videos) = MaxShortFeed
    /\ edits = MaxEdits
    /\ editVideoData.id = AllVideoIds[1]
    /\ editVideoData.title = "x"
    /\ editVideoData.address = FormattedAddress
    /\ editVideoData.latitude = DeviceLatitude
    /\ Entry(AllVideoIds[1]).title = "t"

\* the step is the one in which the suspended saveVideoChanges call resumes
\* after the backend rejected the update / accepted it
SaveFails == saveOp.stage = "sent" /\ saveOp'.stage = "failed"
SaveSucceeds == saveOp.stage = "sent" /\ saveOp'.stage = "saved"

\* C16: when the update fails, the handler leaves the modal's visibility and
\* the draft as they are (the modal still visible and the draft still the one
\* that was sent, unless the user closed the modal or typed meanwhile), sets
\* the error message, sets saving to false, and changes neither the feed nor
\* the stored columns.
C16_FailedSaveKeepsDraft ==
    [][SaveFails =>
          /\ UNCHANGED <<editModalVisible, editVideoData, videos, dbFields>>
          /\ (editModalVisible /\ editVideoData = saveOp.sent) =>
                 (editModalVisible' /\ editVideoData' = saveOp.sent)
          /\ locationError' = UpdateFailed
          /\ saving /\ ~saving']_vars

\* C16 witness: a save of an edited draft has failed; the modal is visible
\* with the edited draft and the message, and the feed entry is the old one
C16_Witness ==
    /\ saveOp.stage = "failed"
    /\ EditOpen
    /\ ~saving
    /\ locationError = UpdateFailed
    /\ edits = MaxEdits
    /\ editVideoData.id = AllVideoIds[1]
    /\ editVideoData.title = "x"
    /\ Entry(AllVideoIds[1]).title = "t"
    /\ dbFields[AllVideoIds[1]].title = "t"

\* C17: when the update succeeds, the modal closes and, without any reload,
\* the feed entry of the edited video has the title, description, address,
\* latitude and longitude of the draft that save was pressed with; its other
\* fields, its position and every other entry are unchanged.
C17_SavedDraftShownInFeed ==
    [][SaveSucceeds =>
          /\ ~editModalVisible'
          /\ ~saving'
          /\ loadPc' = loadPc
          /\ Len(videos') = Len(videos)
          /\ \A i \in 1..Len(videos) :
                IF videos[i].id = saveOp.sent.id
                THEN /\ Editable(videos'[i]) = Editable(saveOp.sent)
                     /\ videos'[i].id = videos[i].id
                     /\ videos'[i].user_id = videos[i].user_id
                     /\ videos'[i].like_count = videos[i].like_count
                     /\ videos'[i].bookmark_count = videos[i].bookmark_count
                ELSE videos'[i] = videos[i]
          /\ dbFields' = [dbFields EXCEPT ![saveOp.sent.id] = Editable(saveOp.sent)]]_vars

\* C17 witness: a draft with a typed title and a typed address was saved; the
\* modal is closed and the first entry of a two-video feed shows both
C17_Witness ==
    /\ saveOp.stage = "saved"
    /\ FeedShown
    /\ ~editModalVisible
    /\ ~saving
    /\ Len(videos) = MaxShortFeed
    /\ Entry(AllVideoIds[1]).title = "x"
    /\ Entry(AllVideoIds[1]).address = "a"
    /\ Editable(Entry(AllVideoIds[2])) = dbFields[AllVideoIds[2]]
    /\ Editable(Entry(AllVideoIds[2])) \in StoredFieldSets

\* C18: a step that closes the edit modal (cancel, back, or a successful
\* save) discards the draft, and the modal closes in no other way: a save in
\* flight ends before the modal closes.
C18_ClosedSessionHasNoDraft ==
    [][(editModalVisible /\ ~editModalVisible') =>
          /\ editVideoData' = NoDraft
          /\ (saveOp.stage = "sent" => saveOp'.stage = "saved")]_vars

\* C19: at most one location call (getCurrentLocation or searchAddress) is
\* in flight at any time, locationLoading is true exactly while one is, and
\* while it is true no step starts another call: the calls in flight after
\* the step are the ones before it, each at its stage or a later one.
C19_SingleLocationOperation ==
    /\ [](Cardinality(locOps) <= 1 /\ (locationLoading <=> locOps # {}))
    /\ [][locationLoading =>
             \A o \in locOps' : \E q \in locOps :
                 /\ q.kind = o.kind
                 /\ q.query = o.query
                 /\ o.stage \in {"permission", "position"} => q.stage \in {"permission", o.stage}]_vars

\* C19 witness: a getCurrentLocation call is awaiting the reverse geocoding
\* in an open edit form whose address was typed meanwhile; both location
\* buttons are disabled
C19_Witness ==
    /\ EditOpen
    /\ locationLoading
    /\ LocationButtonDisabled(locationLoading)
    /\ locOps = {[kind |-> "current", stage |-> "reverse", query |-> Null]}
    /\ editVideoData.address = "a"
    /\ ~ENABLED SearchAddress
    /\ ~ENABLED StartCurrentLocation

\* the step is a searchAddress call that ended at its validation
AddressRejected == locationError' = EnterAddress /\ locationError # EnterAddress

\* C20: searchAddress on a draft whose address is empty or only blanks sets
\* the message and does nothing else: whenever the search button is usable
\* and the address is missing, pressing it gives the message; the step that
\* gives the message leaves locationLoading, the calls in flight, the draft
\* and the feed unchanged; and every geocoding call in flight carries an
\* address that is not blank.
C20_EmptyAddressRejected ==
    /\ []((EditOpen /\ ~locationLoading /\ AddressMissing(editVideoData)) =>
             ENABLED (SearchAddress /\ locationError' = EnterAddress))
    /\ [][AddressRejected =>
             /\ AddressMissing(editVideoData)
             /\ ~locationLoading'
             /\ UNCHANGED <<locOps, locationLoading, editVideoData, videos, dbFields>>]_vars
    /\ [][\A o \in locOps' \ locOps :
             o.kind = "search" => ~AddressMissing(editVideoData) /\ o.query = editVideoData.address]_vars
    /\ [](\A o \in locOps : o.kind = "search" => Trim(o.query) \notin Falsy)

\* C20 witness: the search button was pressed on an address of one blank;
\* the message is shown, nothing is in flight and the draft still has the
\* blank address and no coordinates
C20_Witness ==
    /\ EditOpen
    /\ editVideoData.address = " "
    /\ editVideoData.latitude = Null
    /\ editVideoData.longitude = Null
    /\ locationError = EnterAddress
    /\ ~locationLoading
    /\ locOps = {}

\* C21: saveVideoChanges on a draft with an empty title sends no update: no
\* update is in flight whose title is empty, and no feed entry or stored row
\* ever gets an empty title.
C21_EmptyTitleNotSaved ==
    /\ saveOp.stage = "sent" => saveOp.sent.title # ""
    /\ \A i \in 1..Len(videos) : videos[i].title # ""
    /\ \A v \in VideoIds : dbFields[v].title # ""

\* C22: whenever the action sheet or the edit form is open, or a draft
\* exists, a user is known and the draft is of a video of the feed whose
\* user_id is that user's id; while currentUserId is null neither the sheet
\* nor the form is open, no draft exists and no item's Edit button can be
\* pressed.
C22_EditOnlyOwnVideos ==
    /\ (bottomSheetVisible \/ editModalVisible \/ editVideoData # NoDraft) =>
          /\ currentUserId # NoUser
          /\ editVideoData # NoDraft
          /\ editVideoData.id \in VideoIds
          /\ OwnerOf(editVideoData.id) = currentUserId
          /\ \A i \in 1..Len(videos) :
                videos[i].id = editVideoData.id => videos[i].user_id = currentUserId
    /\ currentUserId = NoUser =>
          /\ ~bottomSheetVisible /\ ~editModalVisible /\ editVideoData = NoDraft
          /\ \A v \in VideoIds : ~ENABLED OpenBottomSheet(v)

\* C22 witness: the feed shows a video of the user and a video of somebody
\* else; the edit form is open on the user's video with a draft that was
\* changed
C22_Witness ==
    /\ EditOpen
    /\ currentUserId = Me
    /\ Len(videos) = MaxShortFeed
    /\ \E i \in 1..Len(videos) : videos[i].user_id = Other
    /\ editVideoData.id = AllVideoIds[1]
    /\ Entry(AllVideoIds[1]).user_id = Me
    /\ edits = MaxEdits

(***************************************************************************)
(* Further properties of playback.                                         *)
(***************************************************************************)
\* the step ran a pass of the playback effect over a feed that is not empty
EffectPass == (currentIndex' # currentIndex \/ videos' # videos) /\ Len(videos') > 0

\* the players of the feed that registered a handle (their ref callback ran)
Registered == {v \in mounted : v \in playerRefs[v] /\ IndexOf(videos, v) >= 0}

C25_BookmarkMirrorsLike ==
    [][\A o \in ops :
          (Settles(o) /\ o.ok /\ o.kind = "bookmark" /\ IndexOf(videos, o.video) >= 0) =>
             /\ FlagOf(interactions', o.video, "bookmark") = ~o.was
             /\ videos'[IndexOf(videos, o.video) + 1].bookmark_count =
                   AdjustedCount("like", Entry(o.video).bookmark_count, o.was)]_vars

(***************************************************************************)
(* Properties of successive edit sessions.                                 *)
(***************************************************************************)
\* the step is openBottomSheet on a video other than the one of the draft
\* of the session before
OpensOtherVideo ==
    /\ ~bottomSheetVisible /\ bottomSheetVisible'
    /\ editVideoData # NoDraft
    /\ editVideoData'.id # editVideoData.id

\* C26: a session opened for a video other than the one edited before starts
\* from that video's stored fields with no location error, no location call
\* loading and none in flight, so that nothing begun in the earlier session
\* can write into the new draft or show as its error.
C26_DraftNotSharedAcrossVideos ==
    [][OpensOtherVideo =>
          /\ editVideoData' = DraftOf(Entry(editVideoData'.id))
          /\ locationError' = Null
          /\ ~locationLoading'
          /\ locOps' = {}]_vars

(***************************************************************************)
(* Properties of loadVideos, checked under SpecLoad.                       *)
(***************************************************************************)
\* C27: every loadVideos call returns, and when it has returned loading is
\* false; the error message is set only by the step in which the select on
\* videos fails, so a missing user and a failing interaction query leave it
\* null; and a call whose select on videos returned no rows ends with an
\* empty feed and no error.
C27_LoadAlwaysEndsLoading ==
    /\ (loadPc.at # "done") ~> (loadPc.at = "done" /\ ~loading)
    /\ [](loadPc.at = "done" => ~loading)
    /\ [][(error' # error /\ error' # NoError) =>
             (loadPc.at = "videosQuery" /\ loadPc'.at = "done" /\ error' = LoadFailed)]_vars
    /\ [][(loadPc.at = "videosQuery" /\ loadPc'.at # "done" /\ dbVideos = <<>>) =>
             (videos' = <<>> /\ error' = NoError)]_vars
    /\ []((loadPc.at = "done" /\ authUser # NoUser /\ dbVideos = <<>> /\ error = NoError) =>
             videos = <<>>)

\* C27 witness: the load of a signed-in user found no videos and has
\* returned after both interaction queries: empty feed, no error, not loading
C27_Witness ==
    /\ loadPc.at = "done"
    /\ loadPc.fetched
    /\ authUser = Me
    /\ dbVideos = <<>>
    /\ videos = <<>>
    /\ error = NoError
    /\ ~loading

(***************************************************************************)
(* Further properties of the edit session.                                 *)
(***************************************************************************)
\* C28: while the edit form is closed by a cancel that happened with a save
\* in flight, no step changes the feed: the save that resumes afterwards
\* leaves `videos` as it is.
C28_CancelledSessionLeavesFeed ==
    [][(saveOp.stage = "sent" /\ ~editModalVisible) => videos' = videos]_vars

\* C29: a save of a draft that was not modified since openBottomSheet made
\* it, once accepted, leaves every feed entry as it was, whatever the stored
\* fields of the video are.
C29_UnmodifiedSaveIsNoOp ==
    [][(SaveSucceeds /\ edits = 0) => videos' = videos]_vars

(***************************************************************************)
(* Independence of the two toggles, checked under SpecInteraction.         *)
(***************************************************************************)
OtherKind(k) == IF k = "like" THEN "bookmark" ELSE "like"

\* C30: neither the step in which the backend executes the statement of a
\* handleLike / handleBookmark call nor the step in which the call resumes
\* changes the flag or the count of the other kind, in the screen or in the
\* backend, for any video; and neither changes which videos the feed holds
\* or their order.
C30_TogglesDoNotCross ==
    [][\A o \in ops :
          (Settles(o) \/ Executes(o)) =>
             /\ \A v \in VideoIds :
                   FlagOf(interactions', v, OtherKind(o.kind)) =
                      FlagOf(interactions, v, OtherKind(o.kind))
             /\ Len(videos') = Len(videos)
             /\ \A i \in 1..Len(videos) :
                   /\ videos'[i].id = videos[i].id
                   /\ CountOf(videos'[i], OtherKind(o.kind)) =
                         CountOf(videos[i], OtherKind(o.kind))
             /\ dbRows'[OtherKind(o.kind)] = dbRows[OtherKind(o.kind)]
             /\ dbCount'[OtherKind(o.kind)] = dbCount[OtherKind(o.kind)]]_vars

\* C30 witness: on a video shown as bookmarked, the bookmark button and then
\* the like button were tapped; the like call has resumed after its insert
\* was accepted while the bookmark call, accepted too, has not resumed yet:
\* the video is liked and still shown as bookmarked with its count
C30_Witness ==
    /\ Len(videos) = MaxShortFeed
    /\ \E b, l \in ops :
          /\ b.kind = "bookmark" /\ l.kind = "like"
          /\ b.video = AllVideoIds[1] /\ l.video = AllVideoIds[1]
          /\ b.n < l.n
          /\ b.was /\ ~l.was
          /\ b.stage = "replied" /\ b.ok
          /\ l.stage = "settled" /\ l.ok
          /\ interactions[AllVideoIds[1]] = [isLiked |-> TRUE, isBookmarked |-> TRUE]
          /\ Entry(AllVideoIds[1]).like_count = l.preCount + 1
          /\ Entry(AllVideoIds[1]).bookmark_count = b.preCount

====
